---- MODULE Spec2Model ----
(***************************************************************************)
(* A model of Terra (drmonkeysee/Terra): the movement automata and the     *)
(* Simulation of terra/sim.py, the FrameClock of terra/ui/clock.py, the    *)
(* Views of terra/ui/views.py and the WorldScene of terra/ui/scenes.py.    *)
(*                                                                         *)
(* Time is counted in whole milliseconds for the automata (the code adds   *)
(* float milliseconds to the accumulators and compares them with the       *)
(* integer thresholds).  An exception is caught nowhere in the package, so *)
(* a raised exception unwinds the program: it is recorded in `raised` and  *)
(* no further operation is taken.                                          *)
(***************************************************************************)
EXTENDS Integers, Sequences, FiniteSets, TLC

VARIABLES
    \* ---- terra/sim.py: Simulation ----
    map_created,    \* whether create_map has set world_map, height and width
    world_map,      \* the SimpleMap: [size, cells]
    height,         \* Simulation.height
    width,          \* Simulation.width
    entities,       \* Simulation._entities, in insertion order
    tiles,          \* the list the last call returned if it was a read of
                    \* visible_map, <<>> otherwise
    raised,         \* "none", or the exception that unwound the program
    last_call,      \* the Simulation method called last ("none" at first)
    last_args,      \* <<height, width>> when that was create_map, else <<>>
    calls,          \* how many Simulation methods have been called
    \* ---- one automaton driven directly (terra/sim.py) ----
    automaton,      \* the entity under update
    screenh,        \* the bounds passed to update
    screenw,
    \* ---- terra/ui/clock.py: FrameClock ----
    clock,          \* the FrameClock: [frame, current, previous, start]
    now,            \* the reading of time.monotonic()
    pc,             \* "outside" or "inside" the with statement's body
    slept,          \* <<d>> when the last exit called time.sleep(d), else <<>>
    body_raised,    \* whether the body of the last tick raised
    exc,            \* the exception leaving the with statement, or "none"
    ticks_exited,   \* how many times __exit__ has run
    \* ---- terra/ui/views.py: the Views and the panels of curses.panel ----
    views,          \* the Views in creation order: [frame, content], the
                    \* numbers of their panels (content 0 when it is None)
    hidden,         \* hidden[p]: whether panel p is hidden; panels are
                    \* numbered in the order of their creation
    stack,          \* the panel stack from bottom to top
    \* ---- terra/ui/views.py: center_in_win ----
    parent,         \* <<H, W>>, the answer of parent_win.getmaxyx()
    request,        \* <<h, w>>, the size asked for
    centered,       \* the outcome of the call: [called, raised, value]
    \* ---- terra/ui/scenes.py: WorldScene under its loop ----
    running,        \* whether the loop is Running (TRUE) or Stopped
    key,            \* the code the last tick read with getch()
    events,         \* what the last tick did, in the order it did it
    screen,         \* the list the map view was last given to draw
    ticks,          \* how many ticks have been taken
    \* ---- terra/ui/views.py: MapView.draw_map ----
    content,        \* <<h, w>>, the answer of self.content.getmaxyx()
    drawing         \* the outcome of the call: [called, raised, writes]

simvars == <<map_created, world_map, height, width, entities, tiles, raised,
             last_call, last_args, calls>>
autovars == <<automaton, screenh, screenw>>
clockvars == <<clock, now, pc, slept, body_raised, exc, ticks_exited>>
viewvars == <<views, hidden, stack>>
centervars == <<parent, request, centered>>
scenevars == <<running, key, events, screen, ticks>>
drawvars == <<content, drawing>>
vars == <<map_created, world_map, height, width, entities, tiles, raised,
          last_call, last_args, calls, automaton, screenh, screenw,
          clock, now, pc, slept, body_raised, exc, ticks_exited,
          views, hidden, stack, parent, request, centered,
          running, key, events, screen, ticks, content, drawing>>

----------------------------------------------------------------------------
(* Bounds of the model *)

\* largest map dimension requested of the Simulation
MaxDim == 2
\* largest number of cells requested of the Simulation
MaxCells == 4
\* create_map is not called again once the roster holds this many entities
MaxEntities == 6
\* number of different terrains the random generator is let to produce
MaxTerrains == 2
\* number of Simulation method calls followed in one run
MaxCalls == 3
\* largest bound passed to an automaton driven directly
MaxScreen == 5

\* longest ordinary body of a tick, in time units
MaxBody == 3
\* longest pause between two ticks, in time units
MaxGap == 1
\* time.monotonic() is followed up to this reading
MaxTime == 70
\* largest number of Views laid out
MaxViews == 3
\* largest padding a View is constructed with
MaxPadding == 2
\* largest height and width of a parent window and of a centered request
MaxWin == 4
\* largest number of cells of the map view's content under the WorldScene
MaxPaneCells == 2
\* number of ticks of the scene loop followed in one run
MaxTicks == 2
\* largest height and width of the content of the map view drawn into
MaxContent == 5

\* the dimensions requested of create_map, degenerate ones included
Dims == (-1)..MaxDim
\* elapsed milliseconds passed to Simulation.update
SimElapsed == {0, 1000}
\* elapsed milliseconds passed to an automaton's update
AutoElapsed == {0, 50, 100, 1000}
\* frame.delta_ms of a tick of the scene loop
SceneElapsed == {0, 100}

----------------------------------------------------------------------------
(* _Direction *)

Direction == {"RIGHT", "UP", "LEFT", "DOWN"}

\* enum.auto() values
DirectionValue(d) ==
    CASE d = "RIGHT" -> 1
      [] d = "UP" -> 2
      [] d = "LEFT" -> 3
      [] d = "DOWN" -> 4

reverse(d) ==
    CASE d = "RIGHT" -> "LEFT"
      [] d = "UP" -> "DOWN"
      [] d = "LEFT" -> "RIGHT"
      [] d = "DOWN" -> "UP"

\* the candidate cell one step from (y, x) in direction d: the match
\* statement shared by the three _move methods
Step(y, x, d) ==
    CASE d = "RIGHT" -> <<y, x + 1>>
      [] d = "UP" -> <<y - 1, x>>
      [] d = "LEFT" -> <<y, x - 1>>
      [] d = "DOWN" -> <<y + 1, x>>

----------------------------------------------------------------------------
(* _Wanderer *)

Wanderer_VELOCITY == 200

Wanderer(y, x) ==
    [kind |-> "Wanderer", y |-> y, x |-> x, energy |-> 0, render_id |-> 64]

\* choice is the outcome of random.choice(tuple(_Direction))
Wanderer_move(e, choice) == Step(e.y, e.x, choice)

\* Wanderer_update with the threshold reached at 200 ms (>= in place of >)
Wanderer_update_at_threshold(e, elapsed, sh, sw, choice) ==
    LET energy == e.energy + elapsed IN
    IF energy >= Wanderer_VELOCITY
    THEN LET p == Wanderer_move(e, choice) IN
         IF 0 <= p[1] /\ p[1] < sh /\ 0 <= p[2] /\ p[2] < sw
         THEN [e EXCEPT !.y = p[1], !.x = p[2], !.energy = 0]
         ELSE [e EXCEPT !.energy = 0]
    ELSE [e EXCEPT !.energy = energy]

Wanderer_update(e, elapsed, sh, sw, choice) ==
    LET energy == e.energy + elapsed IN
    IF energy > Wanderer_VELOCITY
    THEN LET p == Wanderer_move(e, choice) IN
         IF 0 <= p[1] /\ p[1] < sh /\ 0 <= p[2] /\ p[2] < sw
         THEN [e EXCEPT !.y = p[1], !.x = p[2], !.energy = 0]
         ELSE [e EXCEPT !.energy = 0]
    ELSE [e EXCEPT !.energy = energy]

----------------------------------------------------------------------------
(* _Zipper *)

Zipper_VELOCITY == 50
Zipper_SHIFT == 1000

Zipper(y, x) ==
    [kind |-> "Zipper", y |-> y, x |-> x, attention |-> 0, energy |-> 0,
     direction |-> "RIGHT"]

Zipper_render_id(e) == <<26, 24, 27, 25>>[DirectionValue(e.direction)]

Zipper_move(e) == Step(e.y, e.x, e.direction)

\* Zipper_update with an out-of-bounds candidate discarded, as the Wanderer
\* does, instead of reflected
Zipper_update_discard(e, elapsed, sh, sw, choice) ==
    LET e1 == [e EXCEPT !.energy = e.energy + elapsed,
                        !.attention = e.attention + elapsed]
        e2 == IF e1.energy > Zipper_VELOCITY
              THEN LET p == Zipper_move(e1) IN
                   IF 0 <= p[1] /\ p[1] < sh /\ 0 <= p[2] /\ p[2] < sw
                   THEN [e1 EXCEPT !.energy = 0, !.y = p[1], !.x = p[2]]
                   ELSE [e1 EXCEPT !.energy = 0]
              ELSE e1
    IN  IF e2.attention > Zipper_SHIFT
        THEN [e2 EXCEPT !.attention = 0, !.direction = choice]
        ELSE e2

\* Zipper_update with the attention test ahead of the energy test, so that
\* the move is made in the direction just drawn
Zipper_update_shift_first(e, elapsed, sh, sw, choice) ==
    LET e1 == [e EXCEPT !.energy = e.energy + elapsed,
                        !.attention = e.attention + elapsed]
        e2 == IF e1.attention > Zipper_SHIFT
              THEN [e1 EXCEPT !.attention = 0, !.direction = choice]
              ELSE e1
    IN  IF e2.energy > Zipper_VELOCITY
        THEN LET p == Zipper_move(e2) IN
             IF 0 <= p[1] /\ p[1] < sh /\ 0 <= p[2] /\ p[2] < sw
             THEN [e2 EXCEPT !.energy = 0, !.y = p[1], !.x = p[2]]
             ELSE [e2 EXCEPT !.energy = 0,
                             !.direction = reverse(e2.direction)]
        ELSE e2

\* choice is the outcome of random.choice(tuple(_Direction)), drawn only
\* when the attention threshold fires
Zipper_update(e, elapsed, sh, sw, choice) ==
    LET e1 == [e EXCEPT !.energy = e.energy + elapsed,
                        !.attention = e.attention + elapsed]
        e2 == IF e1.energy > Zipper_VELOCITY
              THEN LET p == Zipper_move(e1) IN
                   IF 0 <= p[1] /\ p[1] < sh /\ 0 <= p[2] /\ p[2] < sw
                   THEN [e1 EXCEPT !.energy = 0, !.y = p[1], !.x = p[2]]
                   ELSE [e1 EXCEPT !.energy = 0,
                                   !.direction = reverse(e1.direction)]
              ELSE e1
    IN  IF e2.attention > Zipper_SHIFT
        THEN [e2 EXCEPT !.attention = 0, !.direction = choice]
        ELSE e2

----------------------------------------------------------------------------
(* _Bouncer *)

Bouncer_VELOCITY == 100

\* directions is the list [Y direction, X direction]; active_direction is
\* the 0-based index of the axis whose turn it is
Bouncer(y, x) ==
    [kind |-> "Bouncer", y |-> y, x |-> x, render_id |-> 232, energy |-> 0,
     directions |-> <<"UP", "RIGHT">>, active_direction |-> 0]

Bouncer_move(e) == Step(e.y, e.x, e.directions[e.active_direction + 1])

\* Bouncer_update with the reflection also handing the turn to the other axis
Bouncer_update_turn_on_reflect(e, elapsed, sh, sw) ==
    LET energy == e.energy + elapsed IN
    IF energy > Bouncer_VELOCITY
    THEN LET p == Bouncer_move(e) IN
         IF p[1] < 0 \/ p[1] >= sh
         THEN [e EXCEPT !.directions[1] = reverse(e.directions[1]),
                        !.active_direction = (e.active_direction + 1) % 2,
                        !.energy = 0]
         ELSE IF p[2] < 0 \/ p[2] >= sw
         THEN [e EXCEPT !.directions[2] = reverse(e.directions[2]),
                        !.active_direction = (e.active_direction + 1) % 2,
                        !.energy = 0]
         ELSE [e EXCEPT !.y = p[1], !.x = p[2],
                        !.active_direction = (e.active_direction + 1) % 2,
                        !.energy = 0]
    ELSE [e EXCEPT !.energy = energy]

\* Bouncer_update with a committed move keeping the turn on the same axis
Bouncer_update_keep_turn(e, elapsed, sh, sw) ==
    LET energy == e.energy + elapsed IN
    IF energy > Bouncer_VELOCITY
    THEN LET p == Bouncer_move(e) IN
         IF p[1] < 0 \/ p[1] >= sh
         THEN [e EXCEPT !.directions[1] = reverse(e.directions[1]),
                        !.energy = 0]
         ELSE IF p[2] < 0 \/ p[2] >= sw
         THEN [e EXCEPT !.directions[2] = reverse(e.directions[2]),
                        !.energy = 0]
         ELSE [e EXCEPT !.y = p[1], !.x = p[2], !.energy = 0]
    ELSE [e EXCEPT !.energy = energy]

\* Bouncer_update with the energy spent on a firing taken off the
\* accumulator instead of the accumulator being reset
Bouncer_update_carry_energy(e, elapsed, sh, sw) ==
    LET energy == e.energy + elapsed IN
    IF energy > Bouncer_VELOCITY
    THEN LET p == Bouncer_move(e) IN
         IF p[1] < 0 \/ p[1] >= sh
         THEN [e EXCEPT !.directions[1] = reverse(e.directions[1]),
                        !.energy = energy - Bouncer_VELOCITY]
         ELSE IF p[2] < 0 \/ p[2] >= sw
         THEN [e EXCEPT !.directions[2] = reverse(e.directions[2]),
                        !.energy = energy - Bouncer_VELOCITY]
         ELSE [e EXCEPT !.y = p[1], !.x = p[2],
                        !.active_direction = (e.active_direction + 1) % 2,
                        !.energy = energy - Bouncer_VELOCITY]
    ELSE [e EXCEPT !.energy = energy]

\* Bouncer_update with a reflection that leaves the direction as it was
Bouncer_update_no_reverse(e, elapsed, sh, sw) ==
    LET energy == e.energy + elapsed IN
    IF energy > Bouncer_VELOCITY
    THEN LET p == Bouncer_move(e) IN
         IF p[1] < 0 \/ p[1] >= sh
         THEN [e EXCEPT !.energy = 0]
         ELSE IF p[2] < 0 \/ p[2] >= sw
         THEN [e EXCEPT !.energy = 0]
         ELSE [e EXCEPT !.y = p[1], !.x = p[2],
                        !.active_direction = (e.active_direction + 1) % 2,
                        !.energy = 0]
    ELSE [e EXCEPT !.energy = energy]

\* Bouncer_update with the width test off by one (x > screenw)
Bouncer_update_off_by_one(e, elapsed, sh, sw) ==
    LET energy == e.energy + elapsed IN
    IF energy > Bouncer_VELOCITY
    THEN LET p == Bouncer_move(e) IN
         IF p[1] < 0 \/ p[1] >= sh
         THEN [e EXCEPT !.directions[1] = reverse(e.directions[1]),
                        !.energy = 0]
         ELSE IF p[2] < 0 \/ p[2] > sw
         THEN [e EXCEPT !.directions[2] = reverse(e.directions[2]),
                        !.energy = 0]
         ELSE [e EXCEPT !.y = p[1], !.x = p[2],
                        !.active_direction = (e.active_direction + 1) % 2,
                        !.energy = 0]
    ELSE [e EXCEPT !.energy = energy]

Bouncer_update(e, elapsed, sh, sw) ==
    LET energy == e.energy + elapsed IN
    IF energy > Bouncer_VELOCITY
    THEN LET p == Bouncer_move(e) IN
         IF p[1] < 0 \/ p[1] >= sh
         THEN [e EXCEPT !.directions[1] = reverse(e.directions[1]),
                        !.energy = 0]
         ELSE IF p[2] < 0 \/ p[2] >= sw
         THEN [e EXCEPT !.directions[2] = reverse(e.directions[2]),
                        !.energy = 0]
         ELSE [e EXCEPT !.y = p[1], !.x = p[2],
                        !.active_direction = (e.active_direction + 1) % 2,
                        !.energy = 0]
    ELSE [e EXCEPT !.energy = energy]

----------------------------------------------------------------------------
(* the update and render_id every entity answers to *)

entity_update(e, elapsed, sh, sw, choice) ==
    CASE e.kind = "Wanderer" -> Wanderer_update(e, elapsed, sh, sw, choice)
      [] e.kind = "Zipper" -> Zipper_update(e, elapsed, sh, sw, choice)
      [] e.kind = "Bouncer" -> Bouncer_update(e, elapsed, sh, sw)

entity_render_id(e) ==
    IF e.kind = "Zipper" THEN Zipper_render_id(e) ELSE e.render_id

\* every state one update call can leave the entity in, over the random
\* choices it may draw
UpdateOutcomes(e, elapsed, sh, sw) ==
    {entity_update(e, elapsed, sh, sw, c) : c \in Direction}

----------------------------------------------------------------------------
(* The three parts are modelled one at a time; the variables of the others *)
(* keep the values below.                                                  *)

\* the value of the automaton variables while the Simulation is modelled
NoAutomaton == [kind |-> "None", y |-> 0, x |-> 0, energy |-> 0]

AutoIdle == automaton = NoAutomaton /\ screenh = 0 /\ screenw = 0

\* the value of the Simulation variables while an automaton is driven
SimIdle ==
    /\ map_created = FALSE
    /\ world_map = [size |-> 0, cells |-> <<>>]
    /\ height = 0
    /\ width = 0
    /\ entities = <<>>
    /\ tiles = <<>>
    /\ raised = "none"
    /\ last_call = "none"
    /\ last_args = <<>>
    /\ calls = 0

ViewIdle == views = <<>> /\ hidden = <<>> /\ stack = <<>>

CenterIdle ==
    /\ parent = <<0, 0>>
    /\ request = <<0, 0>>
    /\ centered = [called |-> FALSE, raised |-> "none", value |-> <<>>]

SceneIdle ==
    /\ running = FALSE
    /\ key = -1
    /\ events = <<>>
    /\ screen = <<>>
    /\ ticks = 0

DrawIdle ==
    /\ content = <<0, 0>>
    /\ drawing = [called |-> FALSE, raised |-> "none", writes |-> <<>>]

UiIdle == ViewIdle /\ CenterIdle /\ SceneIdle /\ DrawIdle

----------------------------------------------------------------------------
(* FrameClock.  Time is counted in units of 1/60 s, half the budget of a   *)
(* frame, so that FPS * VSYNC units are one second.                        *)

FPS == 30
\* _VSYNC = 1.0 / FPS seconds, in time units
VSYNC == 2
\* the cap 1.0 of _start_frame, in time units
OneSecond == FPS * VSYNC

\* the time a tick's body takes: an ordinary body, or a stall of over 1 s
BodyTimes == (0..MaxBody) \cup {OneSecond + 1}

FrameData ==
    [blown_frames |-> 0, delta_time |-> 0, frame_left |-> 0, run_time |-> 0,
     total_frames |-> 0]

Min(a, b) == IF a < b THEN a ELSE b

\* FrameClock.__init__ at the reading t of time.monotonic()
FrameClock(t) ==
    [frame |-> FrameData, current |-> 0, previous |-> t, start |-> t]

\* the value of the clock variables while no clock is modelled
ClockIdle ==
    /\ clock = FrameClock(0)
    /\ now = 0
    /\ pc = "outside"
    /\ slept = <<>>
    /\ body_raised = FALSE
    /\ exc = "none"
    /\ ticks_exited = 0

\* _start_frame without the cap of one second on delta_time
start_frame_uncapped(c, t) ==
    [c EXCEPT !.current = t,
              !.frame.delta_time = t - c.previous,
              !.frame.run_time = t - c.start]

\* _start_frame at the reading t of time.monotonic()
start_frame(c, t) ==
    [c EXCEPT !.current = t,
              !.frame.delta_time = Min(t - c.previous, OneSecond),
              !.frame.run_time = t - c.start]

\* _end_frame with the >= test in place of >
end_frame_blown_at_budget(c, t) ==
    LET c1 == [c EXCEPT !.previous = c.current,
                        !.frame.total_frames = c.frame.total_frames + 1]
        frame_elapsed == t - c1.current
    IN  IF frame_elapsed >= VSYNC
        THEN [clock |-> [c1 EXCEPT !.frame.blown_frames =
                                       c1.frame.blown_frames + 1],
              sleep |-> <<>>]
        ELSE [clock |-> [c1 EXCEPT !.frame.frame_left = VSYNC - frame_elapsed],
              sleep |-> <<VSYNC - frame_elapsed>>]

\* _end_frame writing the slack of the tick into frame_left before the test
\* of the budget, so that a blown tick writes it too
end_frame_left_always(c, t) ==
    LET c1 == [c EXCEPT !.previous = c.current,
                        !.frame.total_frames = c.frame.total_frames + 1,
                        !.frame.frame_left = VSYNC - (t - c.current)]
        frame_elapsed == t - c1.current
    IN  IF frame_elapsed > VSYNC
        THEN [clock |-> [c1 EXCEPT !.frame.blown_frames =
                                       c1.frame.blown_frames + 1],
              sleep |-> <<>>]
        ELSE [clock |-> c1, sleep |-> <<VSYNC - frame_elapsed>>]

\* _end_frame at the reading t of time.monotonic(): the clock it leaves and
\* the argument of its call of time.sleep, if it makes one
end_frame(c, t) ==
    LET c1 == [c EXCEPT !.previous = c.current,
                        !.frame.total_frames = c.frame.total_frames + 1]
        frame_elapsed == t - c1.current
    IN  IF frame_elapsed > VSYNC
        THEN [clock |-> [c1 EXCEPT !.frame.blown_frames =
                                       c1.frame.blown_frames + 1],
              sleep |-> <<>>]
        ELSE [clock |-> [c1 EXCEPT !.frame.frame_left = VSYNC - frame_elapsed],
              sleep |-> <<VSYNC - frame_elapsed>>]

\* __exit__ ending the frame only when the body did not raise
FrameClock_exit_skip_on_exception(c, t, raises) ==
    IF raises
    THEN [clock |-> c, sleep |-> <<>>, suppress |-> FALSE]
    ELSE LET r == end_frame(c, t)
         IN  [clock |-> r.clock, sleep |-> r.sleep, suppress |-> FALSE]

\* __exit__: ends the frame whatever exc_type is, and returns False
FrameClock_exit(c, t, raises) ==
    LET r == end_frame(c, t)
    IN  [clock |-> r.clock, sleep |-> r.sleep, suppress |-> FALSE]

ClockInit ==
    /\ SimIdle
    /\ AutoIdle
    /\ UiIdle
    /\ now \in 0..MaxGap
    /\ clock = FrameClock(now)
    /\ pc = "outside"
    /\ slept = <<>>
    /\ body_raised = FALSE
    /\ exc = "none"
    /\ ticks_exited = 0

\* __enter__, after a pause of gap time units
Enter(gap) ==
    /\ pc = "outside"
    /\ exc = "none"
    /\ now + gap <= MaxTime
    /\ now' = now + gap
    /\ clock' = start_frame(clock, now')
    /\ pc' = "inside"
    /\ UNCHANGED <<slept, body_raised, exc, ticks_exited>>
    /\ UNCHANGED <<simvars, autovars, viewvars, centervars, scenevars,
                 drawvars>>

\* the body of the with statement takes d time units and returns or
\* raises; then __exit__ runs.  time.sleep(s) raises ValueError when s < 0
\* and otherwise returns s time units later.  An exception of the body
\* leaves the with statement unless __exit__ returns True.
Exit(d, raises) ==
    /\ pc = "inside"
    /\ now + d <= MaxTime
    /\ LET r == FrameClock_exit(clock, now + d, raises) IN
       /\ clock' = r.clock
       /\ slept' = r.sleep
       /\ IF r.sleep # <<>> /\ r.sleep[1] < 0
          THEN exc' = "ValueError" /\ now' = now + d
          ELSE /\ now' = now + d + (IF r.sleep = <<>> THEN 0 ELSE r.sleep[1])
               /\ exc' = IF raises /\ ~r.suppress THEN "BodyError" ELSE "none"
    /\ body_raised' = raises
    /\ pc' = "outside"
    /\ ticks_exited' = ticks_exited + 1
    /\ UNCHANGED <<simvars, autovars, viewvars, centervars, scenevars,
                 drawvars>>

ClockNext ==
    \/ \E gap \in 0..MaxGap : Enter(gap)
    \/ \E d \in BodyTimes, raises \in BOOLEAN : Exit(d, raises)

SpecClock == ClockInit /\ [][ClockNext]_vars

----------------------------------------------------------------------------
(* An automaton driven directly: constructed at a position inside the      *)
(* bounds, then updated with the same bounds on every call.                *)

AutoInit ==
    /\ SimIdle
    /\ ClockIdle
    /\ UiIdle
    /\ screenh \in 1..MaxScreen
    /\ screenw \in 1..MaxScreen
    /\ \E y \in 0..(screenh - 1), x \in 0..(screenw - 1) :
           \/ automaton = Wanderer(y, x)
           \/ automaton = Zipper(y, x)
           \/ automaton = Bouncer(y, x)

WandererUpdate(elapsed, choice) ==
    /\ automaton.kind = "Wanderer"
    /\ automaton' = Wanderer_update(automaton, elapsed, screenh, screenw, choice)
    /\ UNCHANGED <<screenh, screenw>>
    /\ UNCHANGED <<simvars, clockvars, viewvars, centervars, scenevars,
                 drawvars>>

ZipperUpdate(elapsed, choice) ==
    /\ automaton.kind = "Zipper"
    /\ automaton' = Zipper_update(automaton, elapsed, screenh, screenw, choice)
    /\ UNCHANGED <<screenh, screenw>>
    /\ UNCHANGED <<simvars, clockvars, viewvars, centervars, scenevars,
                 drawvars>>

BouncerUpdate(elapsed) ==
    /\ automaton.kind = "Bouncer"
    /\ automaton' = Bouncer_update(automaton, elapsed, screenh, screenw)
    /\ UNCHANGED <<screenh, screenw>>
    /\ UNCHANGED <<simvars, clockvars, viewvars, centervars, scenevars,
                 drawvars>>

AutoNext ==
    \/ \E elapsed \in AutoElapsed, choice \in Direction :
           WandererUpdate(elapsed, choice)
    \/ \E elapsed \in AutoElapsed, choice \in Direction :
           ZipperUpdate(elapsed, choice)
    \/ \E elapsed \in AutoElapsed : BouncerUpdate(elapsed)

SpecAutomata == AutoInit /\ [][AutoNext]_vars

----------------------------------------------------------------------------
(* SimpleMap *)

SimpleMap_CHAR_MAP == <<32, 5, 6, 39, 44, 58, 59>>

\* random.choices(_CHAR_MAP, weights, k=size): size cells, each any glyph of
\* _CHAR_MAP (every weight is positive), and no cell when size <= 0.  The
\* model lets the generator produce MaxTerrains of these lists, the t-th
\* being _CHAR_MAP read cyclically from its t-th glyph.
\* SimpleMap_buildcells drawing one cell too few
SimpleMap_buildcells_short(size, t) ==
    [i \in 1..(size - 1) |->
        SimpleMap_CHAR_MAP[((i - 1 + t) % Len(SimpleMap_CHAR_MAP)) + 1]]

SimpleMap_buildcells(size, t) ==
    [i \in 1..size |->
        SimpleMap_CHAR_MAP[((i - 1 + t) % Len(SimpleMap_CHAR_MAP)) + 1]]

SimpleMap(size, t) == [size |-> size, cells |-> SimpleMap_buildcells(size, t)]

\* the values random.randrange(n) can return; none (ValueError) when n <= 0
randrange(n) == 0..(n - 1)

----------------------------------------------------------------------------
(* Simulation *)

\* Simulation.__init__: no entity, and no world_map, height or width yet
Init ==
    /\ map_created = FALSE
    /\ world_map = [size |-> 0, cells |-> <<>>]
    /\ height = 0
    /\ width = 0
    /\ entities = <<>>
    /\ tiles = <<>>
    /\ raised = "none"
    /\ last_call = "none"
    /\ last_args = <<>>
    /\ calls = 0
    /\ AutoIdle
    /\ ClockIdle
    /\ UiIdle

\* the three entities create_map appends, at the positions drawn
Roster(pos) ==
    <<Wanderer(pos[1], pos[2]), Zipper(pos[3], pos[4]), Bouncer(pos[5], pos[6])>>

\* the roster after create_map has appended the new entities
create_map_entities(old, pos) == old \o Roster(pos)

\* Simulation.create_map(h, w).  The first randrange of an empty range
\* raises ValueError after world_map, height and width have been assigned
\* and before any entity is appended.
create_map(h, w, t) ==
    /\ raised = "none"
    /\ calls < MaxCalls
    /\ Len(entities) + 3 <= MaxEntities
    /\ last_call' = "create_map"
    /\ last_args' = <<h, w>>
    /\ calls' = calls + 1
    /\ world_map' = SimpleMap(h * w, t)
    /\ height' = h
    /\ width' = w
    /\ map_created' = TRUE
    /\ IF randrange(h) = {} \/ randrange(w) = {}
       THEN /\ raised' = "ValueError"
            /\ UNCHANGED entities
       ELSE /\ \E pos \in randrange(h) \X randrange(w) \X randrange(h)
                          \X randrange(w) \X randrange(h) \X randrange(w) :
                  entities' = create_map_entities(entities, pos)
            /\ UNCHANGED raised
    /\ tiles' = <<>>
    /\ UNCHANGED <<autovars, clockvars, viewvars, centervars, scenevars,
                 drawvars>>

\* every list of entities the loop of Simulation.update can leave, entity by
\* entity in roster order
RECURSIVE update_entities(_, _, _, _)
update_entities(ents, elapsed, h, w) ==
    IF ents = <<>> THEN {<<>>}
    ELSE {<<e>> \o rest : e \in UpdateOutcomes(Head(ents), elapsed, h, w),
                          rest \in update_entities(Tail(ents), elapsed, h, w)}

\* Simulation.update(elapsed); with no entity the loop body never runs, so
\* height and width are not read
update(elapsed) ==
    /\ raised = "none"
    /\ calls < MaxCalls
    /\ last_call' = "update"
    /\ last_args' = <<>>
    /\ calls' = calls + 1
    /\ entities' \in update_entities(entities, elapsed, height, width)
    /\ tiles' = <<>>
    /\ UNCHANGED <<map_created, world_map, height, width, raised>>
    /\ UNCHANGED <<autovars, clockvars, viewvars, centervars, scenevars,
                 drawvars>>

\* tiles[i] = v on a Python list (0-based i, negative i counted from the
\* end): the list after the assignment, or IndexError
list_setitem(l, i, v) ==
    IF i >= Len(l) \/ i < -Len(l)
    THEN [ok |-> FALSE, list |-> l]
    ELSE [ok |-> TRUE,
          list |-> [l EXCEPT ![(IF i < 0 THEN i + Len(l) ELSE i) + 1] = v]]

\* the loop of visible_map over the entities in roster order
RECURSIVE overlay(_, _, _)
overlay(t, ents, w) ==
    IF ents = <<>> THEN [ok |-> TRUE, list |-> t]
    ELSE LET e == Head(ents)
             r == list_setitem(t, e.x + (e.y * w), entity_render_id(e))
         IN  IF r.ok THEN overlay(r.list, Tail(ents), w) ELSE r

\* visible_map with the overlay written into the cells themselves (no copy)
visible_map_result_in_place(cells, ents, w) ==
    LET r == overlay(cells, ents, w)
    IN  [ok |-> r.ok, tiles |-> r.list, cells |-> r.list]

\* Simulation.visible_map: the overlay is written into a copy of the
\* cells, so the cells themselves are left as they were
visible_map_result(cells, ents, w) ==
    LET r == overlay(cells, ents, w)
    IN  [ok |-> r.ok, tiles |-> r.list, cells |-> cells]

\* a read of Simulation.visible_map; AttributeError before the first
\* create_map, when world_map does not exist
visible_map ==
    /\ raised = "none"
    /\ calls < MaxCalls
    /\ last_call' = "visible_map"
    /\ last_args' = <<>>
    /\ calls' = calls + 1
    /\ IF ~map_created
       THEN /\ raised' = "AttributeError"
            /\ tiles' = <<>>
            /\ UNCHANGED world_map
       ELSE LET r == visible_map_result(world_map.cells, entities, width) IN
            /\ world_map' = [world_map EXCEPT !.cells = r.cells]
            /\ IF r.ok
               THEN tiles' = r.tiles /\ UNCHANGED raised
               ELSE raised' = "IndexError" /\ tiles' = <<>>
    /\ UNCHANGED <<map_created, height, width, entities>>
    /\ UNCHANGED <<autovars, clockvars, viewvars, centervars, scenevars,
                 drawvars>>

Next ==
    \/ \E h \in Dims, w \in Dims, t \in 0..(MaxTerrains - 1) :
           h * w <= MaxCells /\ create_map(h, w, t)
    \/ \E elapsed \in SimElapsed : update(elapsed)
    \/ visible_map

Spec == Init /\ [][Next]_vars

----------------------------------------------------------------------------
(* Views.  curses.panel keeps the panels that are not hidden in a stack:   *)
(* new_panel puts the new panel on top, hide takes a panel out of the      *)
(* stack and show puts it on top.                                          *)

Remove(s, p) == SelectSeq(s, LAMBDA q : q # p)

\* the panels: [hidden, stack]
NoPanels == [hidden |-> <<>>, stack |-> <<>>]

\* curses.panel.new_panel(win)
new_panel(ps) ==
    [hidden |-> Append(ps.hidden, FALSE),
     stack |-> Append(ps.stack, Len(ps.hidden) + 1)]

\* panel.hidden()
panel_hidden(ps, p) == ps.hidden[p]

\* panel.show()
panel_show(ps, p) ==
    [hidden |-> [ps.hidden EXCEPT ![p] = FALSE],
     stack |-> Append(Remove(ps.stack, p), p)]

\* panel.hide()
panel_hide(ps, p) ==
    [hidden |-> [ps.hidden EXCEPT ![p] = TRUE],
     stack |-> Remove(ps.stack, p)]

\* View.__init__: the frame panel, then the content panel if padding is set
View_init(ps, padding) ==
    LET p1 == new_panel(ps)
        frame == Len(p1.hidden)
    IN  IF padding = 0
        THEN [panels |-> p1, view |-> [frame |-> frame, content |-> 0]]
        ELSE LET p2 == new_panel(p1)
             IN  [panels |-> p2,
                  view |-> [frame |-> frame, content |-> Len(p2.hidden)]]

\* toggle_visibility that shows and hides the frame panel only
toggle_visibility_frame_only(ps, v) ==
    IF panel_hidden(ps, v.frame)
    THEN panel_show(ps, v.frame)
    ELSE panel_hide(ps, v.frame)

\* toggle_visibility that shows the content panel ahead of the frame panel
toggle_visibility_content_first(ps, v) ==
    IF panel_hidden(ps, v.frame)
    THEN LET shown == IF v.content # 0 THEN panel_show(ps, v.content) ELSE ps
         IN  panel_show(shown, v.frame)
    ELSE LET gone == panel_hide(ps, v.frame)
         IN  IF v.content # 0 THEN panel_hide(gone, v.content) ELSE gone

\* View.toggle_visibility
toggle_visibility(ps, v) ==
    IF panel_hidden(ps, v.frame)
    THEN LET shown == panel_show(ps, v.frame)
         IN  IF v.content # 0 THEN panel_show(shown, v.content) ELSE shown
    ELSE LET gone == panel_hide(ps, v.frame)
         IN  IF v.content # 0 THEN panel_hide(gone, v.content) ELSE gone

\* the TOGGLE_ECHO case of _main_loop, on the pair of panels echoview and
\* echocontent: the content is hidden before its frame
toggle_echo(ps, v) ==
    IF panel_hidden(ps, v.frame)
    THEN panel_show(panel_show(ps, v.frame), v.content)
    ELSE panel_hide(panel_hide(ps, v.content), v.frame)

\* the Views constructed one after the other with the paddings given
RECURSIVE Layout(_)
Layout(paddings) ==
    IF paddings = <<>> THEN [panels |-> NoPanels, views |-> <<>>]
    ELSE LET n == Len(paddings)
             before == Layout(SubSeq(paddings, 1, n - 1))
             made == View_init(before.panels, paddings[n])
         IN  [panels |-> made.panels,
              views |-> Append(before.views, made.view)]

\* WorldScene._layout_views: the CodePageView (no padding), the
\* FrameMetricsView (padding 2) and the MapView (padding 1), in this order
WorldScene_layout_views == Layout(<<0, 2, 1>>)

\* any number of Views, each with or without padding, all visible
ViewInit ==
    /\ SimIdle
    /\ AutoIdle
    /\ ClockIdle
    /\ CenterIdle
    /\ SceneIdle
    /\ DrawIdle
    /\ \E n \in 1..MaxViews :
         \E paddings \in [1..n -> 0..MaxPadding] :
            LET l == Layout(paddings)
            IN  /\ views = l.views
                /\ hidden = l.panels.hidden
                /\ stack = l.panels.stack

ToggleVisibility(i) ==
    /\ i \in 1..Len(views)
    /\ LET ps == toggle_visibility([hidden |-> hidden, stack |-> stack],
                                   views[i])
       IN  hidden' = ps.hidden /\ stack' = ps.stack
    /\ UNCHANGED views
    /\ UNCHANGED <<simvars, autovars, clockvars, centervars, scenevars,
                 drawvars>>

ToggleEcho(i) ==
    /\ i \in 1..Len(views)
    /\ views[i].content # 0
    /\ LET ps == toggle_echo([hidden |-> hidden, stack |-> stack], views[i])
       IN  hidden' = ps.hidden /\ stack' = ps.stack
    /\ UNCHANGED views
    /\ UNCHANGED <<simvars, autovars, clockvars, centervars, scenevars,
                 drawvars>>

ViewNext ==
    \/ \E i \in 1..MaxViews : ToggleVisibility(i)
    \/ \E i \in 1..MaxViews : ToggleEcho(i)

SpecView == ViewInit /\ [][ViewNext]_vars

----------------------------------------------------------------------------
(* center_in_win.  Python's // rounds towards minus infinity, as \div does *)

\* a division by 2 that rounds towards zero
Truncated2(a) == IF a < 0 THEN -((-a) \div 2) ELSE a \div 2

\* center_in_win with the halves rounded towards zero
center_in_win_truncating(H, W, h, w) ==
    LET y == Truncated2(H - h)
        x == Truncated2(W - w)
    IN  IF y < 0 \/ x < 0
        THEN [called |-> TRUE, raised |-> "ValueError", value |-> <<>>]
        ELSE [called |-> TRUE, raised |-> "none", value |-> <<h, w, y, x>>]

\* center_in_win(parent_win, h, w) with <<H, W>> = parent_win.getmaxyx()
center_in_win(H, W, h, w) ==
    LET y == (H - h) \div 2
        x == (W - w) \div 2
    IN  IF y < 0 \/ x < 0
        THEN [called |-> TRUE, raised |-> "ValueError", value |-> <<>>]
        ELSE [called |-> TRUE, raised |-> "none", value |-> <<h, w, y, x>>]

CenterInit ==
    /\ SimIdle
    /\ AutoIdle
    /\ ClockIdle
    /\ ViewIdle
    /\ SceneIdle
    /\ DrawIdle
    /\ parent \in (1..MaxWin) \X (1..MaxWin)
    /\ request \in (0..MaxWin) \X (0..MaxWin)
    /\ centered = [called |-> FALSE, raised |-> "none", value |-> <<>>]

CenterInWin ==
    /\ ~centered.called
    /\ centered' = center_in_win(parent[1], parent[2], request[1], request[2])
    /\ UNCHANGED <<parent, request>>
    /\ UNCHANGED <<simvars, autovars, clockvars, viewvars, scenevars,
                 drawvars>>

CenterNext == CenterInWin

SpecCenter == CenterInit /\ [][CenterNext]_vars

----------------------------------------------------------------------------
(* MapView.draw_map.  A write is [op, y, x, c]: the primitive called, the   *)
(* coordinates it is given and the cell whose glyph CP437[c] it is given.   *)

\* draw_map(world_map) with cells = world_map.cells and <<h, w>> the answer
\* of self.content.getmaxyx().  islice raises ValueError when its stop
\* argument, len(cells) - 1, is negative.
draw_map(cells, h, w) ==
    LET n == Len(cells) IN
    IF n - 1 < 0
    THEN [called |-> TRUE, raised |-> "ValueError", writes |-> <<>>]
    ELSE [called |-> TRUE, raised |-> "none",
          writes |->
              [i \in 1..(n - 1) |->
                  [op |-> "addstr", y |-> (i - 1) \div w, x |-> (i - 1) % w,
                   c |-> cells[i]]]
              \o <<[op |-> "insstr", y |-> h - 1, x |-> w - 1,
                    c |-> cells[n]]>>]

\* the content of a map view of any size up to MaxContent, and the map to
\* draw: one made by create_map for that size, or the empty map that
\* create_map makes when a dimension is 0
DrawInit ==
    /\ AutoIdle
    /\ ClockIdle
    /\ ViewIdle
    /\ CenterIdle
    /\ SceneIdle
    /\ content \in (1..MaxContent) \X (1..MaxContent)
    /\ \E size \in {0, content[1] * content[2]}, t \in 0..(MaxTerrains - 1) :
           world_map = SimpleMap(size, t)
    /\ map_created = TRUE
    /\ height = content[1]
    /\ width = content[2]
    /\ entities = <<>>
    /\ tiles = <<>>
    /\ raised = "none"
    /\ last_call = "none"
    /\ last_args = <<>>
    /\ calls = 0
    /\ drawing = [called |-> FALSE, raised |-> "none", writes |-> <<>>]

DrawMap ==
    /\ ~drawing.called
    /\ drawing' = draw_map(world_map.cells, content[1], content[2])
    /\ UNCHANGED content
    /\ UNCHANGED <<simvars, autovars, clockvars, viewvars, centervars,
                   scenevars>>

DrawNext == DrawMap

SpecDraw == DrawInit /\ [][DrawNext]_vars

----------------------------------------------------------------------------
(* WorldScene.  The scene owns the Simulation and the three Views; the     *)
(* size of the map view's content never changes, so it is the height and   *)
(* width the Simulation was given by the _new_map of __init__.             *)

\* _KeyCode
GEN_MAP == 109
QUIT == 113
TOGGLE_CODEPAGE == 99

\* what getch() may return: the three commands, no input (-1), another key
Keys == {GEN_MAP, QUIT, TOGGLE_CODEPAGE, -1, 120}

\* the scene as one value
Scene ==
    [world_map |-> world_map, height |-> height, width |-> width,
     entities |-> entities, panels |-> [hidden |-> hidden, stack |-> stack],
     raised |-> raised, events |-> events, screen |-> screen]

\* every scene _new_map can leave: create_map with the size of the map
\* view's content, over the terrains and positions drawn
WorldScene_new_map(sc) ==
    {[sc EXCEPT !.world_map = SimpleMap(sc.height * sc.width, t),
                !.entities = create_map_entities(sc.entities, pos),
                !.events = Append(sc.events, "create_map")] :
        t \in 0..(MaxTerrains - 1),
        pos \in randrange(sc.height) \X randrange(sc.width)
                \X randrange(sc.height) \X randrange(sc.width)
                \X randrange(sc.height) \X randrange(sc.width)}

\* handle_input that falls through to return True on QUIT as well
handle_input_ignore_quit(sc, k) ==
    CASE k = GEN_MAP ->
           {[scene |-> n, continue |-> TRUE] : n \in WorldScene_new_map(sc)}
      [] k = TOGGLE_CODEPAGE ->
           {[scene |-> [sc EXCEPT !.panels = toggle_visibility(sc.panels,
                                                               views[1]),
                                  !.events = Append(sc.events,
                                                    "toggle_visibility")],
             continue |-> TRUE]}
      [] OTHER -> {[scene |-> sc, continue |-> TRUE]}

\* WorldScene.handle_input when getch() returns k: the scenes it can leave,
\* each with the value returned.  The codepage view is the first View.
handle_input(sc, k) ==
    CASE k = GEN_MAP ->
           {[scene |-> n, continue |-> TRUE] : n \in WorldScene_new_map(sc)}
      [] k = QUIT -> {[scene |-> sc, continue |-> FALSE]}
      [] k = TOGGLE_CODEPAGE ->
           {[scene |-> [sc EXCEPT !.panels = toggle_visibility(sc.panels,
                                                               views[1]),
                                  !.events = Append(sc.events,
                                                    "toggle_visibility")],
             continue |-> TRUE]}
      [] OTHER -> {[scene |-> sc, continue |-> TRUE]}

\* WorldScene._redraw: the metrics view, then the map view with the
\* visible map read at this moment
WorldScene_redraw(sc) ==
    LET r == visible_map_result(sc.world_map.cells, sc.entities, sc.width)
    IN  IF r.ok
        THEN [sc EXCEPT !.screen = r.tiles,
                        !.events = sc.events \o <<"metrics_view.redraw",
                                                  "map_view.redraw">>]
        ELSE [sc EXCEPT !.raised = "IndexError",
                        !.events = sc.events \o <<"metrics_view.redraw">>]

\* WorldScene.update with the redraw ahead of the simulation's update
WorldScene_update_redraw_first(sc, elapsed) ==
    LET drawn == WorldScene_redraw(sc)
    IN  {[drawn EXCEPT !.entities = es,
                       !.events = Append(drawn.events, "sim.update")] :
            es \in update_entities(sc.entities, elapsed, sc.height, sc.width)}

\* WorldScene.update(frame) with elapsed = frame.delta_ms: every scene it
\* can leave
WorldScene_update(sc, elapsed) ==
    {WorldScene_redraw([sc EXCEPT !.entities = es,
                                  !.events = Append(sc.events, "sim.update")]) :
        es \in update_entities(sc.entities, elapsed, sc.height, sc.width)}

\* WorldScene.__init__: a Simulation, the three Views, and the first map
SceneInit ==
    /\ AutoIdle
    /\ ClockIdle
    /\ CenterIdle
    /\ DrawIdle
    /\ views = WorldScene_layout_views.views
    /\ hidden = WorldScene_layout_views.panels.hidden
    /\ stack = WorldScene_layout_views.panels.stack
    /\ \E h \in 1..MaxPaneCells, w \in 1..MaxPaneCells :
         /\ h * w <= MaxPaneCells
         /\ height = h
         /\ width = w
         /\ \E t \in 0..(MaxTerrains - 1) : world_map = SimpleMap(h * w, t)
         /\ \E pos \in randrange(h) \X randrange(w) \X randrange(h)
                       \X randrange(w) \X randrange(h) \X randrange(w) :
                entities = create_map_entities(<<>>, pos)
    /\ map_created = TRUE
    /\ tiles = <<>>
    /\ raised = "none"
    /\ last_call = "none"
    /\ last_args = <<>>
    /\ calls = 0
    /\ running = TRUE
    /\ key = -1
    /\ events = <<>>
    /\ screen = <<>>
    /\ ticks = 0

\* one tick of the loop that drives the scene: handle_input reads the code
\* k; if it returns False the loop ends, otherwise update is called with
\* the frame of the tick
Tick(k, elapsed) ==
    /\ running
    /\ raised = "none"
    /\ ticks < MaxTicks
    /\ k = GEN_MAP => Len(entities) + 3 <= MaxEntities
    /\ \E o \in handle_input([Scene EXCEPT !.events = <<"getch">>], k) :
         \E sc \in (IF o.continue
                    THEN WorldScene_update(o.scene, elapsed)
                    ELSE {o.scene}) :
            /\ running' = o.continue
            /\ world_map' = sc.world_map
            /\ height' = sc.height
            /\ width' = sc.width
            /\ entities' = sc.entities
            /\ hidden' = sc.panels.hidden
            /\ stack' = sc.panels.stack
            /\ raised' = sc.raised
            /\ events' = sc.events
            /\ screen' = sc.screen
    /\ key' = k
    /\ ticks' = ticks + 1
    /\ UNCHANGED <<map_created, tiles, last_call, last_args, calls, views>>
    /\ UNCHANGED <<autovars, clockvars, centervars, drawvars>>

SceneNext == \E k \in Keys, elapsed \in SceneElapsed : Tick(k, elapsed)

SpecScene == SceneInit /\ [][SceneNext]_vars

----------------------------------------------------------------------------
(* Properties of the automata, checked under SpecAutomata *)

\* C1: after every update call, whatever the elapsed time and the random
\* choices, the automaton's position is inside the bounds passed:
\* 0 <= y < screenh and 0 <= x < screenw.
C1_PositionInBounds ==
    /\ 0 <= automaton.y /\ automaton.y < screenh
    /\ 0 <= automaton.x /\ automaton.x < screenw

\* a Bouncer that was reflected at the top wall and then at the right wall,
\* where it still stands
C1_Witness ==
    /\ automaton.kind = "Bouncer"
    /\ automaton.directions = <<"DOWN", "LEFT">>
    /\ automaton.x = screenw - 1
    /\ automaton.energy = 0
    /\ screenw >= 2 /\ screenh >= 2

\* the Bouncer of the scenario: bounds 5 x 5, at (0, 0), on its Y turn
C4_AtOrigin(dy) ==
    /\ automaton.kind = "Bouncer"
    /\ screenh = 5 /\ screenw = 5
    /\ automaton.y = 0 /\ automaton.x = 0
    /\ automaton.directions = <<dy, "RIGHT">>
    /\ automaton.active_direction = 0

C4_FirstFiring ==
    \A elapsed \in AutoElapsed :
        (/\ C4_AtOrigin("UP")
         /\ automaton.energy + elapsed > Bouncer_VELOCITY
         /\ BouncerUpdate(elapsed))
        => /\ automaton'.directions = <<"DOWN", "RIGHT">>
           /\ automaton'.y = 0 /\ automaton'.x = 0

\* C4 as stated: the firing after the reflection is the X turn and moves
\* the Bouncer to (0, 1).
C4_Original ==
    [][/\ C4_FirstFiring
       /\ \A elapsed \in AutoElapsed :
            (/\ C4_AtOrigin("DOWN")
             /\ automaton.energy + elapsed > Bouncer_VELOCITY
             /\ BouncerUpdate(elapsed))
            => (automaton'.y = 0 /\ automaton'.x = 1)]_vars

\* C4 (amended): the first firing attempts row -1, reverses the Y direction
\* to DOWN and leaves the Bouncer at (0, 0), still on its Y turn; the next
\* firing is therefore the Y turn again and moves the Bouncer to (1, 0),
\* handing the turn to the X axis.
C4_ReflectKeepsTurn ==
    [][/\ C4_FirstFiring
       /\ \A elapsed \in AutoElapsed :
            (/\ C4_AtOrigin("UP")
             /\ automaton.energy + elapsed > Bouncer_VELOCITY
             /\ BouncerUpdate(elapsed))
            => automaton'.active_direction = 0
       /\ \A elapsed \in AutoElapsed :
            (/\ C4_AtOrigin("DOWN")
             /\ automaton.energy + elapsed > Bouncer_VELOCITY
             /\ BouncerUpdate(elapsed))
            => /\ automaton'.y = 1 /\ automaton'.x = 0
               /\ automaton'.active_direction = 1
               /\ automaton'.directions = <<"DOWN", "RIGHT">>]_vars

\* the Bouncer after the second firing of the scenario
C4_Witness ==
    /\ automaton.kind = "Bouncer"
    /\ screenh = 5 /\ screenw = 5
    /\ automaton.y = 1 /\ automaton.x = 0
    /\ automaton.directions = <<"DOWN", "RIGHT">>
    /\ automaton.active_direction = 1
    /\ automaton.energy = 0

\* a Zipper heading RIGHT on the last column
C8_AtRightEdge ==
    /\ automaton.kind = "Zipper"
    /\ automaton.direction = "RIGHT"
    /\ automaton.x = screenw - 1

\* C8 as stated: at an update in which the energy threshold fires the
\* position is unchanged and the direction after the update is LEFT.
C8_Original ==
    [][\A elapsed \in AutoElapsed, choice \in Direction :
        (/\ C8_AtRightEdge
         /\ automaton.energy + elapsed > Zipper_VELOCITY
         /\ ZipperUpdate(elapsed, choice))
        => /\ automaton'.y = automaton.y /\ automaton'.x = automaton.x
           /\ automaton'.direction = "LEFT"]_vars

\* C8 (amended): at an update in which the energy threshold fires the move
\* is rejected and the position is unchanged; after the update the
\* direction is LEFT unless the attention threshold fires in the same
\* update, in which case it is the direction drawn at random.
C8_ReflectAtRightEdge ==
    [][\A elapsed \in AutoElapsed, choice \in Direction :
        (/\ C8_AtRightEdge
         /\ automaton.energy + elapsed > Zipper_VELOCITY
         /\ ZipperUpdate(elapsed, choice))
        => /\ automaton'.y = automaton.y /\ automaton'.x = automaton.x
           /\ automaton'.energy = 0
           /\ IF automaton.attention + elapsed > Zipper_SHIFT
              THEN automaton'.direction = choice /\ automaton'.attention = 0
              ELSE automaton'.direction = "LEFT"]_vars

\* a Zipper reflected at the right wall by its first move attempt
C8_Witness ==
    /\ automaton.kind = "Zipper"
    /\ automaton.direction = "LEFT"
    /\ automaton.x = screenw - 1
    /\ automaton.energy = 0
    /\ automaton.attention = 100
    /\ screenw >= 2

\* whether the cell p lies inside the bounds passed to update
InScreen(p) ==
    /\ 0 <= p[1] /\ p[1] < screenh
    /\ 0 <= p[2] /\ p[2] < screenw

\* the Bouncer e after an update in which its energy threshold fires
Fire(e) == Bouncer_update(e, Bouncer_VELOCITY + 1, screenh, screenw)

\* whether that update moves the Bouncer, and along which axis (0 is Y)
Commits(e) == <<Fire(e).y, Fire(e).x>> # <<e.y, e.x>>
MoveAxis(e) == IF Fire(e).y # e.y THEN 0 ELSE 1

\* the axis of the first move committed within n + 1 firings from e, or -1
RECURSIVE NextMoveAxis(_, _)
NextMoveAxis(e, n) ==
    IF Commits(e) THEN MoveAxis(e)
    ELSE IF n = 0 THEN -1
    ELSE NextMoveAxis(Fire(e), n - 1)

\* C18: when the energy threshold of a Bouncer fires, only the coordinate
\* of the active axis can change; an out-of-bounds candidate reverses the
\* direction of the active axis and leaves the position and the active
\* axis as they were; an in-bounds candidate is committed and the turn
\* goes to the other axis.  Hence the move committed next after a
\* committed move is on the other axis.
C18_AxisPolicy ==
    [][\A elapsed \in AutoElapsed :
        (/\ automaton.kind = "Bouncer"
         /\ automaton.energy + elapsed > Bouncer_VELOCITY
         /\ BouncerUpdate(elapsed))
        => LET a == automaton.active_direction
               p == Step(automaton.y, automaton.x, automaton.directions[a + 1])
           IN  /\ a = 0 => automaton'.x = automaton.x
               /\ a = 1 => automaton'.y = automaton.y
               /\ IF InScreen(p)
                  THEN /\ <<automaton'.y, automaton'.x>> = p
                       /\ automaton'.active_direction = 1 - a
                       /\ automaton'.directions = automaton.directions
                       /\ NextMoveAxis(automaton', 2) \in {-1, 1 - a}
                  ELSE /\ automaton'.y = automaton.y
                       /\ automaton'.x = automaton.x
                       /\ automaton'.active_direction = a
                       /\ automaton'.directions[a + 1] =
                              reverse(automaton.directions[a + 1])
                       /\ automaton'.directions[2 - a] =
                              automaton.directions[2 - a]]_vars

\* a Bouncer that moved along Y and was then reflected at the right wall:
\* it is still the turn of the X axis
C18_Witness ==
    /\ automaton.kind = "Bouncer"
    /\ automaton.directions = <<"UP", "LEFT">>
    /\ automaton.active_direction = 1
    /\ automaton.energy = 0

\* C19: a Zipper's update draws a new direction exactly when the attention
\* accumulated exceeds 1000 ms, whether or not the energy threshold fires
\* in the same update; the move or reflection is made with the direction
\* held at entry and the drawn direction replaces its outcome; attention
\* is reset only when a direction is drawn and energy only when a move is
\* attempted.
C19_ShiftIndependent ==
    [][\A elapsed \in AutoElapsed, choice \in Direction :
        (automaton.kind = "Zipper" /\ ZipperUpdate(elapsed, choice))
        => LET moves == automaton.energy + elapsed > Zipper_VELOCITY
               shifts == automaton.attention + elapsed > Zipper_SHIFT
               p == Step(automaton.y, automaton.x, automaton.direction)
           IN  /\ automaton'.direction =
                      IF shifts THEN choice
                      ELSE IF moves /\ ~InScreen(p)
                      THEN reverse(automaton.direction)
                      ELSE automaton.direction
               /\ automaton'.attention =
                      IF shifts THEN 0 ELSE automaton.attention + elapsed
               /\ automaton'.energy =
                      IF moves THEN 0 ELSE automaton.energy + elapsed
               /\ <<automaton'.y, automaton'.x>> =
                      IF moves /\ InScreen(p) THEN p
                      ELSE <<automaton.y, automaton.x>>]_vars

\* a Zipper whose attention threshold fired in an update in which the
\* energy threshold did not
C19_Witness ==
    /\ automaton.kind = "Zipper"
    /\ automaton.attention = 0
    /\ automaton.energy = Zipper_VELOCITY

\* C20: a Wanderer's update attempts a move exactly when the energy
\* accumulated is strictly greater than 200 ms; an out-of-bounds candidate
\* is discarded and the position kept, an in-bounds candidate is committed,
\* and in both cases energy is reset to 0; an update below the threshold
\* changes energy only.
C20_WandererPolicy ==
    [][\A elapsed \in AutoElapsed, choice \in Direction :
        (automaton.kind = "Wanderer" /\ WandererUpdate(elapsed, choice))
        => LET p == Step(automaton.y, automaton.x, choice)
           IN  IF automaton.energy + elapsed > Wanderer_VELOCITY
               THEN /\ automaton'.energy = 0
                    /\ <<automaton'.y, automaton'.x>> =
                           IF InScreen(p) THEN p
                           ELSE <<automaton.y, automaton.x>>
                    /\ automaton'.render_id = automaton.render_id
               ELSE automaton' =
                        [automaton EXCEPT !.energy =
                                              automaton.energy + elapsed]]_vars

\* a Wanderer whose energy has come to exactly 200 ms without a move
C20_Witness ==
    /\ automaton.kind = "Wanderer"
    /\ automaton.energy = Wanderer_VELOCITY

----------------------------------------------------------------------------
(* Properties of the Simulation, checked under Spec *)

EntityInGrid(e) ==
    /\ 0 <= e.y /\ e.y < height
    /\ 0 <= e.x /\ e.x < width

\* C2: after any sequence of create_map calls with positive dimensions and
\* update calls, every entity of the Simulation is inside the current grid:
\* 0 <= y < height and 0 <= x < width.
C2_EntitiesInGrid ==
    raised = "none" => \A i \in 1..Len(entities) : EntityInGrid(entities[i])

\* C3: after every create_map call the roster is exactly one Wanderer, one
\* Zipper and one Bouncer, in that order, each freshly constructed inside
\* the new grid.
C3_RosterOfThree ==
    (last_call = "create_map" /\ raised = "none")
    => /\ Len(entities) = 3
       /\ \E pos \in randrange(height) \X randrange(width) \X randrange(height)
                     \X randrange(width) \X randrange(height) \X randrange(width) :
              entities = Roster(pos)

\* the flat index of an entity in the visible map
FlatIndex(e) == e.x + (e.y * width)

\* the entities standing on the cell of 0-based flat index i
Occupants(i) == {k \in 1..Len(entities) : FlatIndex(entities[k]) = i}

Last(S) == CHOOSE k \in S : \A j \in S : j <= k

\* C5: a read of visible_map returns the terrain cells with, at the flat
\* index of every entity, the glyph of the last entity in roster order on
\* that cell; it differs from the terrain in exactly as many positions as
\* there are distinct entity cells.
C5_VisibleMapOverlay ==
    (last_call = "visible_map" /\ map_created)
    => /\ raised = "none"
       /\ Len(tiles) = Len(world_map.cells)
       /\ \A i \in 1..Len(tiles) :
              tiles[i] = IF Occupants(i - 1) = {}
                         THEN world_map.cells[i]
                         ELSE entity_render_id(entities[Last(Occupants(i - 1))])
       /\ Cardinality({i \in 1..Len(tiles) : tiles[i] # world_map.cells[i]})
            = Cardinality({<<entities[k].y, entities[k].x>> :
                              k \in 1..Len(entities)})

\* C6: create_map with a zero or negative dimension completes without
\* raising and leaves an empty terrain grid.
C6_DegenerateMapIsEmpty ==
    (last_call = "create_map" /\ (height <= 0 \/ width <= 0))
    => /\ raised = "none"
       /\ world_map.cells = <<>>

\* C7: for all height, width >= 0, create_map(height, width) leaves
\* height * width cells and the height and width it was given, so the cell
\* of flat index i is on row i div width, column i mod width of the grid.
C7_CellCount ==
    (last_call = "create_map" /\ last_args[1] >= 0 /\ last_args[2] >= 0)
    => /\ Len(world_map.cells) = last_args[1] * last_args[2]
       /\ world_map.size = last_args[1] * last_args[2]
       /\ height = last_args[1] /\ width = last_args[2]
       /\ \A i \in 0..(Len(world_map.cells) - 1) :
              /\ 0 <= i \div width /\ i \div width < height
              /\ 0 <= i % width /\ i % width < width

\* a map of two rows and two columns has been generated
C7_Witness ==
    /\ last_call = "create_map"
    /\ raised = "none"
    /\ height = 2 /\ width = 2
    /\ Len(world_map.cells) = 4

\* C17: a read of visible_map, in any state, leaves the cells of the
\* world map, height, width and every entity as they were, and a read that
\* follows another read directly returns the same list.
C17_ReadIsPure ==
    [][visible_map =>
          /\ world_map' = world_map
          /\ height' = height
          /\ width' = width
          /\ entities' = entities
          /\ map_created' = map_created
          /\ (last_call = "visible_map" /\ raised' = "none")
                 => tiles' = tiles]_vars

\* a read has returned a list that shows an entity where the cells hold
\* terrain
C17_Witness ==
    /\ last_call = "visible_map"
    /\ raised = "none"
    /\ Len(entities) = 3
    /\ tiles # world_map.cells
    /\ Len(tiles) = Len(world_map.cells)

----------------------------------------------------------------------------
(* Properties of the FrameClock, checked under SpecClock *)

\* C9: at the end of every tick, if the time elapsed since the tick's start
\* is strictly greater than the budget, blown_frames grows by one and there
\* is no sleep; otherwise blown_frames is unchanged, frame_left becomes the
\* budget minus the elapsed time and the clock sleeps for exactly frame_left.
C9_EndOfTick ==
    [][\A d \in BodyTimes, raises \in BOOLEAN :
        Exit(d, raises)
        => LET frame_elapsed == (now + d) - clock.current IN
           IF frame_elapsed > VSYNC
           THEN /\ clock'.frame.blown_frames = clock.frame.blown_frames + 1
                /\ clock'.frame.frame_left = clock.frame.frame_left
                /\ slept' = <<>>
                /\ now' = now + d
           ELSE /\ clock'.frame.blown_frames = clock.frame.blown_frames
                /\ clock'.frame.frame_left = VSYNC - frame_elapsed
                /\ slept' = <<clock'.frame.frame_left>>
                /\ now' = now + d + clock'.frame.frame_left]_vars

\* a blown tick has followed a tick that slept: one blown frame of two,
\* no sleep at the last exit, the slack of the earlier tick still recorded
C9_Witness ==
    /\ pc = "outside"
    /\ clock.frame.total_frames = 2
    /\ clock.frame.blown_frames = 1
    /\ slept = <<>>
    /\ clock.frame.frame_left > 0

\* C10: __exit__ runs the end-of-frame accounting once per tick whether the
\* body returned or raised, raises nothing itself and never suppresses the
\* body's exception: total_frames equals the number of ticks exited,
\* blown_frames <= total_frames, and an exception leaves the with statement
\* exactly when the body raised one.
C10_ExitUnconditional ==
    /\ clock.frame.total_frames = ticks_exited
    /\ clock.frame.blown_frames <= clock.frame.total_frames
    /\ exc # "ValueError"
    /\ (exc = "BodyError") <=> body_raised

\* a tick whose body raised after overrunning the budget has been exited
C10_Witness ==
    /\ exc = "BodyError"
    /\ clock.frame.total_frames = 2
    /\ clock.frame.blown_frames = 1
    /\ slept = <<>>

\* C11: on every tick entry delta_time is the time since the start of the
\* previous tick (since construction, on the first tick) capped at one
\* second, and run_time is the time since construction; so delta_time lies
\* between 0 and one second and run_time never decreases.
C11_TickEntry ==
    [][\A gap \in 0..MaxGap :
          Enter(gap) =>
              LET previous_start == IF ticks_exited = 0
                                    THEN clock.start
                                    ELSE clock.current
              IN  /\ clock'.frame.delta_time =
                         Min(now' - previous_start, OneSecond)
                  /\ clock'.frame.run_time = now' - clock.start
                  /\ clock'.frame.delta_time >= 0
                  /\ clock'.frame.delta_time <= OneSecond
                  /\ clock'.frame.run_time >= clock.frame.run_time]_vars

\* a tick entered more than one second after the start of the one before:
\* the cap applies
C11_Witness ==
    /\ pc = "inside"
    /\ ticks_exited > 0
    /\ clock.current - clock.previous > OneSecond
    /\ clock.frame.delta_time = OneSecond

----------------------------------------------------------------------------
(* Properties of the Views, checked under SpecView *)

Panels == [hidden |-> hidden, stack |-> stack]

\* C12: after any sequence of toggles, the frame panel and the content
\* panel of a View with padding are both hidden or both visible; one call
\* of toggle_visibility flips the state of both, and two calls in a row
\* leave every panel hidden or visible as it was.
C12_LockStep ==
    \A i \in 1..Len(views) :
        LET v == views[i]
            once == toggle_visibility(Panels, v)
            twice == toggle_visibility(once, v)
        IN  /\ v.content # 0 => hidden[v.content] = hidden[v.frame]
            /\ once.hidden[v.frame] = ~hidden[v.frame]
            /\ v.content # 0 => once.hidden[v.content] = ~hidden[v.content]
            /\ twice.hidden = hidden

\* a View with padding toggled out of sight, frame and content, below a
\* View still visible
C12_Witness ==
    \E i, j \in 1..Len(views) :
        /\ i < j
        /\ views[i].content # 0
        /\ hidden[views[i].frame]
        /\ hidden[views[i].content]
        /\ ~hidden[views[j].frame]

PanelsOf(v) == IF v.content # 0 THEN <<v.frame, v.content>> ELSE <<v.frame>>

----------------------------------------------------------------------------
(* Properties of center_in_win, checked under SpecCenter *)

\* C16: center_in_win raises ValueError exactly when h > H or w > W;
\* otherwise it returns (h, w, y, x) with y the half of H - h and x the
\* half of W - w rounded down, both at least 0, and the rectangle inside
\* the parent: y + h <= H and x + w <= W.
C16_CenterOrRaise ==
    centered.called =>
        LET H == parent[1]
            W == parent[2]
            h == request[1]
            w == request[2]
        IN  /\ (centered.raised = "ValueError") <=> (h > H \/ w > W)
            /\ centered.raised \in {"none", "ValueError"}
            /\ centered.raised = "none" =>
                 LET y == centered.value[3]
                     x == centered.value[4]
                 IN  /\ centered.value = <<h, w, y, x>>
                     /\ 2 * y <= H - h /\ H - h <= (2 * y) + 1
                     /\ 2 * x <= W - w /\ W - w <= (2 * x) + 1
                     /\ y >= 0 /\ x >= 0
                     /\ y + h <= H /\ x + w <= W

\* a request centered with an odd number of rows to spare
C16_Witness ==
    /\ centered.called
    /\ centered.raised = "none"
    /\ parent[1] - request[1] = 3
    /\ centered.value[3] = 1

----------------------------------------------------------------------------
(* Properties of the WorldScene under its loop, checked under SpecScene *)

\* C14: the loop takes a step only while Running; it is Stopped after a
\* tick exactly when the code read in it is QUIT, and else still Running;
\* a tick that reads QUIT leaves the simulation, the panels and the screen
\* as they were and neither updates nor redraws; every other tick does
\* both.
C14_QuitStops ==
    [][/\ running
       /\ running' = (key' # QUIT)
       /\ IF key' = QUIT
          THEN /\ UNCHANGED <<world_map, height, width, entities, screen,
                              hidden, stack>>
               /\ events' = <<"getch">>
          ELSE \E i, j \in 1..Len(events') :
                  /\ events'[i] = "sim.update"
                  /\ events'[j] = "map_view.redraw"]_vars

\* the loop stopped by QUIT on a tick after one that had drawn the map
C14_Witness ==
    /\ ~running
    /\ key = QUIT
    /\ ticks >= 2
    /\ screen # <<>>

\* what handle_input does, if anything, before it returns
InputEvents ==
    IF key = GEN_MAP THEN <<"create_map">>
    ELSE IF key = TOGGLE_CODEPAGE THEN <<"toggle_visibility">>
    ELSE <<>>

\* C15: in every tick that does not stop the loop the input is handled
\* first, a regeneration of the map or a toggle included, then the
\* simulation is updated, then the views are redrawn; and the list the map
\* view draws is the visible map as it is after the update of that tick.
C15_TickOrder ==
    (ticks > 0 /\ key # QUIT) =>
        /\ events = <<"getch">> \o InputEvents
                        \o <<"sim.update", "metrics_view.redraw",
                             "map_view.redraw">>
        /\ screen = overlay(world_map.cells, entities, width).list

\* a tick that regenerated the map: the entities it added have been
\* updated, and all six are on the screen
C15_Witness ==
    /\ key = GEN_MAP
    /\ Len(entities) = 6
    /\ entities[4].energy = 100
    /\ screen = overlay(world_map.cells, entities, width).list
    /\ screen # world_map.cells

----------------------------------------------------------------------------
(* Further properties of the FrameClock, checked under SpecClock *)

\* C24: frame_left is never negative; it is 0 as long as no tick has ended
\* inside the budget; a tick that ends over the budget leaves it as it
\* was, a tick that ends inside the budget writes its slack, and nothing
\* else writes it.
C24_FrameLeftKept ==
    [][/\ clock.frame.frame_left >= 0
       /\ clock'.frame.frame_left >= 0
       /\ clock.frame.blown_frames = clock.frame.total_frames
              => clock.frame.frame_left = 0
       /\ \A gap \in 0..MaxGap :
              Enter(gap) => clock'.frame.frame_left = clock.frame.frame_left
       /\ \A d \in BodyTimes, raises \in BOOLEAN :
              Exit(d, raises) =>
                  IF d > VSYNC
                  THEN /\ clock'.frame.frame_left = clock.frame.frame_left
                       /\ clock'.frame.blown_frames =
                              clock.frame.blown_frames + 1
                  ELSE /\ clock'.frame.frame_left = VSYNC - d
                       /\ clock'.frame.blown_frames =
                              clock.frame.blown_frames]_vars

\* a tick has just ended over the budget, and frame_left still holds the
\* whole budget an earlier tick left
C24_Witness ==
    /\ pc = "outside"
    /\ ticks_exited >= 2
    /\ slept = <<>>
    /\ clock.frame.blown_frames >= 1
    /\ clock.frame.frame_left = VSYNC

----------------------------------------------------------------------------
(* Further properties of the automata, checked under SpecAutomata *)

Abs(n) == IF n < 0 THEN -n ELSE n

\* the threshold of the automaton e
Velocity(e) ==
    CASE e.kind = "Wanderer" -> Wanderer_VELOCITY
      [] e.kind = "Zipper" -> Zipper_VELOCITY
      [] e.kind = "Bouncer" -> Bouncer_VELOCITY

\* C22: one update call moves the automaton by at most one cell, however
\* large elapsed is, and leaves its energy between 0 and its VELOCITY and
\* a Zipper's attention between 0 and 1000.
C22_NoCatchUp ==
    [][/\ Abs(automaton'.y - automaton.y) + Abs(automaton'.x - automaton.x)
              <= 1
       /\ 0 <= automaton'.energy
       /\ automaton'.energy <= Velocity(automaton')
       /\ automaton.kind = "Zipper" =>
              /\ 0 <= automaton'.attention
              /\ automaton'.attention <= Zipper_SHIFT]_vars

\* a Bouncer that moved once and then gathered exactly its VELOCITY
C22_Witness ==
    /\ automaton.kind = "Bouncer"
    /\ automaton.active_direction = 1
    /\ automaton.energy = Bouncer_VELOCITY

\* the Bouncer e after n updates in which its energy threshold fires
RECURSIVE FireN(_, _)
FireN(e, n) == IF n = 0 THEN e ELSE FireN(Fire(e), n - 1)

\* the axes of the moves committed in the next n firings from e
AxesMoved(e, n) ==
    {MoveAxis(FireN(e, k)) : k \in {j \in 0..(n - 1) : Commits(FireN(e, j))}}

\* C23: in bounds of height and width at least 2, of any two firings in a
\* row of a Bouncer at least one commits a move, and any four firings in
\* a row commit moves on both axes; in bounds of height 1 the turn stays
\* with the Y axis, every firing reverses the Y direction, and no update
\* changes the position, whatever the width.
C23_BouncerProgress ==
    [][automaton.kind = "Bouncer" =>
         /\ (screenh >= 2 /\ screenw >= 2) =>
                /\ Commits(automaton) \/ Commits(Fire(automaton))
                /\ AxesMoved(automaton, 4) = {0, 1}
         /\ screenh = 1 =>
                /\ automaton.active_direction = 0
                /\ ~Commits(automaton)
                /\ Fire(automaton).directions[1] =
                       reverse(automaton.directions[1])
                /\ automaton'.y = automaton.y
                /\ automaton'.x = automaton.x
                /\ automaton'.active_direction = 0]_vars

\* a Bouncer in bounds 2 x 2 that is below the top row, heading down, with
\* the turn on the X axis
C23_Witness ==
    /\ automaton.kind = "Bouncer"
    /\ screenh = 2 /\ screenw = 2
    /\ automaton.y = 1
    /\ automaton.directions[1] = "DOWN"
    /\ automaton.active_direction = 1
    /\ automaton.energy = 0

----------------------------------------------------------------------------
(* Properties of MapView.draw_map, checked under SpecDraw *)

\* C21: draw_map writes every cell of the map once: cell i, for every i
\* before the last, with addstr at (i div w, i mod w), and the last cell
\* with insstr at (h - 1, w - 1), which is the place of the last index
\* when the map has h * w cells; and so for every size of map, the empty
\* map included.
C21_DrawsEveryCell ==
    drawing.called =>
        LET cells == world_map.cells
            n == Len(cells)
            h == content[1]
            w == content[2]
        IN  /\ drawing.raised = "none"
            /\ Len(drawing.writes) = n
            /\ \A i \in 0..(n - 2) :
                   drawing.writes[i + 1] =
                       [op |-> "addstr", y |-> i \div w, x |-> i % w,
                        c |-> cells[i + 1]]
            /\ n >= 1 =>
                   /\ drawing.writes[n] =
                          [op |-> "insstr", y |-> h - 1, x |-> w - 1,
                           c |-> cells[n]]
                   /\ n = h * w =>
                          (h - 1 = (n - 1) \div w /\ w - 1 = (n - 1) % w)

====
